---------------------------- MODULE Spec2Model ----------------------------
(***************************************************************************)
(* farm-sequential.js: the sequential wallet farm.  One run provisions NUM *)
(* ephemeral wallets one after another; each is funded from the funder     *)
(* wallet (pRetry, retries: 2), a storeMessage transaction is sent from it  *)
(* (pRetry, retries: 2, gas estimate with a fallback), the outcome is      *)
(* pushed to results, and farm-results.json is written after the loop.     *)
(*                                                                         *)
(* The network, the ethers library and p-retry are the environment: every  *)
(* awaited call either returns or throws, chosen by \E in the actions.     *)
(* Each action is the code between two suspension points (awaits) of       *)
(* main().  File writes (fs.writeFileSync) are taken to succeed.           *)
(***************************************************************************)
EXTENDS Integers, Sequences, FiniteSets, TLC

\* ---- bounds of the model ------------------------------------------------
MaxNum == 2          \* --num ranges over 0..MaxNum
MaxRate == 2         \* --rate ranges over -1..MaxRate
MaxGas == 2          \* provider.estimateGas returns a value in 1..MaxGas

\* ---- program constants --------------------------------------------------
Retries == 2             \* retries: 2 (both pRetry calls)
FallbackGas == 300000    \* gas limit used when the estimate fails
SettleMs == 1000         \* sleep(1000) after the funding is confirmed

VARIABLES
  argv,          \* parsed command line: rpc, contract (present?), num, rate, useHd, saveWallets
  env,           \* process.env: FUNDER_PRIVATE_KEY, MNEMONIC (present?)
  lib,           \* the installed ethers build: does it export ethers.BigInt?
  pc,            \* position of the process
  exitCode,      \* exit status once pc is "done" or "exited"
  i,             \* loop variable of main
  wallet,        \* address of the wallet of this iteration, 0 = undefined
  results,       \* const results = []
  savedWallets,  \* const savedWallets = []
  walletsFile,   \* content of wallets.json
  walletsWrites, \* number of writes of wallets.json
  summary,       \* content of farm-results.json (rateSeconds, results)
  summaryWrites, \* number of writes of farm-results.json
  fundAttempts,  \* calls of fundWallet in this iteration
  fundHook,      \* calls of the funding onFailedAttempt in this iteration
  fundAccepted,  \* transfers of this iteration that FUNDER.sendTransaction got broadcast
  storeAttempts, \* runs of the pRetry callback of sendStoreMessageTx in this iteration
  storeHook,     \* calls of the store onFailedAttempt in this iteration
  storeEnd,      \* how sendStoreMessageTx ended in this iteration
  estimate,      \* outcome of provider.estimateGas in the current attempt
  gasLimit,      \* let gasLimit; 0 = undefined
  fundSubmits,   \* indices for which FUNDER.sendTransaction was called
  storeSubmits,  \* indices from whose wallet wallet.sendTransaction was called
  delays         \* the sleeps taken so far, in order

cfgVars == <<argv, env, lib>>
fileVars == <<walletsFile, walletsWrites, summary, summaryWrites>>
fundVars == <<fundAttempts, fundHook, fundAccepted, fundSubmits>>
storeVars == <<storeAttempts, storeHook, storeEnd, estimate, gasLimit, storeSubmits>>
vars == <<argv, env, lib, pc, exitCode, i, wallet, results, savedWallets,
          walletsFile, walletsWrites, summary, summaryWrites,
          fundAttempts, fundHook, fundAccepted, storeAttempts, storeHook,
          storeEnd, estimate, gasLimit, fundSubmits, storeSubmits, delays>>

RateValues == {-1} \cup (0 .. MaxRate)
GasEstimates == 1 .. MaxGas

Max(a, b) == IF a >= b THEN a ELSE b

\* ---- module-level constants of the script ---------------------------------
NUM_OrOne == IF argv.num = 0 THEN 1 ELSE argv.num
NUM == argv.num
RATE_SECONDS_NoFloor == argv.rate
RATE_SECONDS == Max(1, argv.rate)
USE_HD == argv.useHd
SAVE_WALLETS == argv.saveWallets
MNEMONIC == env.MNEMONIC

\* the three checks before the constants are set
ConfigMissing_NoKeyCheck == ~argv.rpc \/ ~argv.contract
ConfigMissing == ~argv.rpc \/ ~argv.contract \/ ~env.FUNDER_PRIVATE_KEY

\* wallet.address / wallet.privateKey / tx.hash of iteration index: opaque
\* values, distinct per index, never 0
AddressOf(index) == index + 1
PrivateKeyOf(index) == index + 1
TxHashOf(index) == index + 1

\* createWallet(index): "throw" or the address of the wallet.  ext is what the
\* ethers call (HD derivation, createRandom) does.
createWallet_NoMnemonicCheck(index, ext) ==
  IF ext = "throw" THEN "throw" ELSE "ok"
createWallet(index, ext) ==
  IF USE_HD
    THEN IF ~MNEMONIC THEN "throw"
         ELSE IF ext = "throw" THEN "throw" ELSE "ok"
    ELSE IF ext = "throw" THEN "throw" ELSE "ok"

Init ==
  /\ argv \in [rpc : BOOLEAN, contract : BOOLEAN, num : 0 .. MaxNum,
               rate : RateValues, useHd : BOOLEAN, saveWallets : BOOLEAN]
  /\ env \in [FUNDER_PRIVATE_KEY : BOOLEAN, MNEMONIC : BOOLEAN]
  /\ lib \in [BigInt : BOOLEAN]
  /\ pc = "config"
  /\ exitCode = 0
  /\ i = 0
  /\ wallet = 0
  /\ results = <<>>
  /\ savedWallets = <<>>
  /\ walletsFile = <<>>
  /\ walletsWrites = 0
  /\ summary = [rateSeconds |-> 0, results |-> <<>>]
  /\ summaryWrites = 0
  /\ fundAttempts = 0
  /\ fundHook = 0
  /\ fundAccepted = 0
  /\ storeAttempts = 0
  /\ storeHook = 0
  /\ storeEnd = "none"
  /\ estimate = "none"
  /\ gasLimit = 0
  /\ fundSubmits = {}
  /\ storeSubmits = {}
  /\ delays = <<>>

\* lines 55-68: process.exit(1) when a required setting is missing
CheckConfig ==
  /\ pc = "config"
  /\ IF ConfigMissing
       THEN pc' = "exited" /\ exitCode' = 1
       ELSE pc' = "loop" /\ UNCHANGED exitCode
  /\ UNCHANGED <<cfgVars, i, wallet, results, savedWallets, fileVars,
                 fundVars, storeVars, delays>>

\* line 176: for (let i = 0; i < NUM; i++), and "let wallet" of the body
LoopHead ==
  /\ pc = "loop"
  /\ IF i < NUM
       THEN /\ pc' = "create"
            /\ wallet' = 0
            /\ fundAttempts' = 0 /\ fundHook' = 0 /\ fundAccepted' = 0
            /\ storeAttempts' = 0 /\ storeHook' = 0
            /\ storeEnd' = "none" /\ estimate' = "none" /\ gasLimit' = 0
       ELSE /\ pc' = "summary"
            /\ UNCHANGED <<wallet, fundAttempts, fundHook, fundAccepted,
                           storeAttempts, storeHook, storeEnd, estimate,
                           gasLimit>>
  /\ UNCHANGED <<cfgVars, exitCode, i, results, savedWallets, fileVars,
                 fundSubmits, storeSubmits, delays>>

\* ---- the objects pushed to results --------------------------------------
\* error: String(err) is an opaque text; the model keeps the call that threw
CreateFailResult(index, err) ==
  [index |-> index, status |-> "fail", step |-> "create", error |-> err]
FundFailResult(index, address, err) ==
  [index |-> index, address |-> address, status |-> "fail", step |-> "fund",
   error |-> err]
OkResult(index, address, txHash) ==
  [index |-> index, address |-> address, txHash |-> txHash, status |-> "ok"]
StoreFailResult_WithTxHash(index, address, err) ==
  [index |-> index, address |-> address, txHash |-> 0, status |-> "fail",
   step |-> "store", error |-> err]
StoreFailResult(index, address, err) ==
  [index |-> index, address |-> address, status |-> "fail", step |-> "store",
   error |-> err]

\* ---- p-retry, retries: 2 -------------------------------------------------
\* after the failure of attempt number n: is another attempt made?
RetriesLeft(attemptNumber) == Retries - (attemptNumber - 1)
\* retries left after a failed fundWallet / a failed run of the store callback:
\* each pRetry call counts its own attempts
FundRetriesLeft(attemptNumber) == RetriesLeft(attemptNumber)
StoreRetriesLeft_SharedBudget(attemptNumber) == RetriesLeft(attemptNumber + fundHook)
StoreRetriesLeft(attemptNumber) == RetriesLeft(attemptNumber)

\* onFailedAttempt runs after every failed attempt, before the decision to retry
onFailedAttemptCalled_OnlyBeforeRetry(attemptNumber) == RetriesLeft(attemptNumber) > 0
onFailedAttemptCalled(attemptNumber) == TRUE

\* ---- 1. create wallet: lines 180-193 ---------------------------------------
\* the catch block: push the failure and continue
CreateFailed_NoPush(err) ==
  /\ results' = results
  /\ i' = i + 1
  /\ pc' = "loop"
CreateFailed_NoContinue(err) ==
  /\ results' = Append(results, CreateFailResult(i, err))
  /\ i' = i
  /\ pc' = "fund"
CreateFailed(err) ==
  /\ results' = Append(results, CreateFailResult(i, err))
  /\ i' = i + 1
  /\ pc' = "loop"

\* lines 195-204: savedWallets.push and the rewrite of wallets.json
SaveWallet_OnlyLatest(address) ==
  IF SAVE_WALLETS
    THEN /\ savedWallets' = Append(savedWallets,
                [index |-> i, address |-> address, privateKey |-> PrivateKeyOf(i)])
         /\ walletsFile' = <<[index |-> i, address |-> address,
                              privateKey |-> PrivateKeyOf(i)]>>
         /\ walletsWrites' = walletsWrites + 1
    ELSE UNCHANGED <<savedWallets, walletsFile, walletsWrites>>
SaveWallet(address) ==
  IF SAVE_WALLETS
    THEN /\ savedWallets' = Append(savedWallets,
                [index |-> i, address |-> address, privateKey |-> PrivateKeyOf(i)])
         /\ walletsFile' = savedWallets'
         /\ walletsWrites' = walletsWrites + 1
    ELSE UNCHANGED <<savedWallets, walletsFile, walletsWrites>>

CreateError == IF USE_HD /\ ~MNEMONIC THEN "MNEMONIC required" ELSE "create"

CreateWallet(ext) ==
  /\ pc = "create"
  /\ IF createWallet(i, ext) = "throw"
       THEN /\ CreateFailed(CreateError)
            /\ UNCHANGED <<wallet, savedWallets, walletsFile, walletsWrites>>
       ELSE /\ wallet' = AddressOf(i)
            /\ SaveWallet(AddressOf(i))
            /\ pc' = "fund"
            /\ UNCHANGED <<i, results>>
  /\ UNCHANGED <<cfgVars, exitCode, summary, summaryWrites, fundVars,
                 storeVars, delays>>

\* ---- 2. fund wallet: lines 206-231 ------------------------------------------
\* the catch block: push the failure and continue
FundFailed_Rethrow(err) ==
  /\ results' = results
  /\ i' = i
  /\ pc' = "exited"
  /\ exitCode' = 1
FundFailed_NoContinue(err) ==
  /\ results' = Append(results, FundFailResult(i, wallet, err))
  /\ i' = i
  /\ pc' = "settle"
  /\ UNCHANGED exitCode
FundFailed_Paced(err) ==
  /\ results' = Append(results, FundFailResult(i, wallet, err))
  /\ i' = i
  /\ pc' = "rate"
  /\ UNCHANGED exitCode
FundFailed(err) ==
  /\ results' = Append(results, FundFailResult(i, wallet, err))
  /\ i' = i + 1
  /\ pc' = "loop"
  /\ UNCHANGED exitCode

\* one call of fundWallet(wallet.address) under pRetry.  out: "reject" when
\* FUNDER.sendTransaction throws, "waitfail" when the transaction went out
\* and tx.wait() throws, "ok" when tx.wait() returns the receipt.  pRetry
\* wraps the whole of fundWallet, so a failed wait is retried with a new
\* sendTransaction.
FundAttempt(out) ==
  /\ pc = "fund"
  /\ fundAttempts' = fundAttempts + 1
  /\ fundSubmits' = fundSubmits \cup {i}
  /\ fundAccepted' = IF out = "reject" THEN fundAccepted ELSE fundAccepted + 1
  /\ IF out = "ok"
       THEN /\ pc' = "settle"
            /\ UNCHANGED <<fundHook, i, results, exitCode>>
       ELSE /\ fundHook' = IF onFailedAttemptCalled(fundAttempts')
                             THEN fundHook + 1 ELSE fundHook
            /\ IF FundRetriesLeft(fundAttempts') > 0
                 THEN pc' = "fund" /\ UNCHANGED <<i, results, exitCode>>
                 ELSE FundFailed("fundWallet")
  /\ UNCHANGED <<cfgVars, wallet, savedWallets, fileVars, storeVars, delays>>

\* line 234: await sleep(1000)
Settle_NoSleep ==
  /\ pc = "settle"
  /\ delays' = delays
  /\ pc' = "balance"
  /\ UNCHANGED <<cfgVars, exitCode, i, wallet, results, savedWallets,
                 fileVars, fundVars, storeVars>>
Settle ==
  /\ pc = "settle"
  /\ delays' = Append(delays, [kind |-> "settle", index |-> i, ms |-> SettleMs])
  /\ pc' = "balance"
  /\ UNCHANGED <<cfgVars, exitCode, i, wallet, results, savedWallets,
                 fileVars, fundVars, storeVars>>

\* ---- 3. send storeMessage tx: lines 236-265, sendStoreMessageTx 114-162 ----
\* lines 243-251: the call returned
StoreOk(txHash) ==
  /\ results' = Append(results, OkResult(i, wallet, txHash))
  /\ pc' = "rate"
  /\ UNCHANGED i
\* the catch block, lines 252-265: push the failure, no continue
StoreFailed_Continue(err) ==
  /\ results' = Append(results, StoreFailResult(i, wallet, err))
  /\ i' = i + 1
  /\ pc' = "loop"
StoreFailed(err) ==
  /\ results' = Append(results, StoreFailResult(i, wallet, err))
  /\ pc' = "rate"
  /\ UNCHANGED i

\* lines 115-119: the balance is read before pRetry is entered, so a throw of
\* getBalance leaves sendStoreMessageTx without any attempt
GetBalance(out) ==
  /\ pc = "balance"
  /\ IF out = "ok"
       THEN /\ pc' = "estimate"
            /\ UNCHANGED <<i, results, storeEnd>>
       ELSE /\ StoreFailed("getBalance")
            /\ storeEnd' = "balance"
  /\ UNCHANGED <<cfgVars, exitCode, wallet, savedWallets, fileVars, fundVars,
                 storeAttempts, storeHook, estimate, gasLimit, storeSubmits,
                 delays>>

\* lines 139-142, the catch of the estimate: gasLimit = ethers.BigInt(300000).
\* ethers.BigInt is a call into the installed library: with a build that
\* exports it the limit is set, with a build that does not the call is a
\* TypeError ("ethers.BigInt is not a function") raised inside the attempt.
FallbackThrows == ~lib.BigInt

\* lines 123-142: start of one run of the pRetry callback, up to the estimate.
\* est: 0 when provider.estimateGas throws, else the estimated gas.
\* p-retry does not retry a TypeError and does not report it to
\* onFailedAttempt: it rejects at once.
EstimateGas(est) ==
  /\ pc = "estimate"
  /\ storeAttempts' = storeAttempts + 1
  /\ IF est # 0
       THEN /\ estimate' = "ok"
            /\ gasLimit' = est
            /\ pc' = "send"
            /\ UNCHANGED <<i, results, storeEnd>>
       ELSE /\ estimate' = "fail"
            /\ IF FallbackThrows
                 THEN /\ StoreFailed("TypeError")
                      /\ storeEnd' = "typeerror"
                      /\ UNCHANGED gasLimit
                 ELSE /\ gasLimit' = FallbackGas
                      /\ pc' = "send"
                      /\ UNCHANGED <<i, results, storeEnd>>
  /\ UNCHANGED <<cfgVars, exitCode, wallet, savedWallets, fileVars, fundVars,
                 storeHook, storeSubmits, delays>>

\* lines 144-153: wallet.sendTransaction and tx.wait of the attempt, and what
\* pRetry does with a failure.  out: "reject", "waitfail" or "ok".  The
\* attempt is over: its gasLimit goes out of scope.
SendTx(out) ==
  /\ pc = "send"
  /\ storeSubmits' = storeSubmits \cup {i}
  /\ IF out = "ok"
       THEN /\ StoreOk(TxHashOf(i))
            /\ storeEnd' = "ok"
            /\ UNCHANGED storeHook
       ELSE /\ storeHook' = IF onFailedAttemptCalled(storeAttempts)
                              THEN storeHook + 1 ELSE storeHook
            /\ IF StoreRetriesLeft(storeAttempts) > 0
                 THEN pc' = "estimate" /\ UNCHANGED <<i, results, storeEnd>>
                 ELSE StoreFailed("sendTransaction") /\ storeEnd' = "exhausted"
  /\ estimate' = "none"
  /\ gasLimit' = 0
  /\ UNCHANGED <<cfgVars, exitCode, wallet, savedWallets, fileVars, fundVars,
                 storeAttempts, delays>>

\* lines 267-269: await sleep(RATE_SECONDS * 1000), then i++ of the for loop
RateDelay_FlushSummary ==
  /\ pc = "rate"
  /\ delays' = Append(delays, [kind |-> "rate", index |-> i,
                               ms |-> RATE_SECONDS * 1000])
  /\ i' = i + 1
  /\ pc' = "loop"
  /\ summary' = [rateSeconds |-> RATE_SECONDS, results |-> results]
  /\ summaryWrites' = summaryWrites + 1
  /\ UNCHANGED <<cfgVars, exitCode, wallet, results, savedWallets,
                 walletsFile, walletsWrites, fundVars, storeVars>>
RateDelay ==
  /\ pc = "rate"
  /\ delays' = Append(delays, [kind |-> "rate", index |-> i,
                               ms |-> RATE_SECONDS * 1000])
  /\ i' = i + 1
  /\ pc' = "loop"
  /\ UNCHANGED <<cfgVars, exitCode, wallet, results, savedWallets, fileVars,
                 fundVars, storeVars>>

\* lines 272-295: farm-results.json is written, main returns, the process ends
WriteSummary ==
  /\ pc = "summary"
  /\ summary' = [rateSeconds |-> RATE_SECONDS, results |-> results]
  /\ summaryWrites' = summaryWrites + 1
  /\ pc' = "done"
  /\ exitCode' = 0
  /\ UNCHANGED <<cfgVars, i, wallet, results, savedWallets, walletsFile,
                 walletsWrites, fundVars, storeVars, delays>>

Next ==
  \/ CheckConfig
  \/ LoopHead
  \/ \E ext \in {"ok", "throw"} : CreateWallet(ext)
  \/ \E out \in {"ok", "reject", "waitfail"} : FundAttempt(out)
  \/ Settle
  \/ \E out \in {"ok", "throw"} : GetBalance(out)
  \/ \E est \in {0} \cup GasEstimates : EstimateGas(est)
  \/ \E out \in {"ok", "reject", "waitfail"} : SendTx(out)
  \/ RateDelay
  \/ WriteSummary

Spec == Init /\ [][Next]_vars

\* every awaited call returns or throws, and the process keeps running
FairSpec == Spec /\ WF_vars(Next)

TypeOK ==
  /\ pc \in {"config", "loop", "create", "fund", "settle", "balance",
             "estimate", "send", "rate", "summary", "done", "exited"}
  /\ i \in 0 .. NUM
  /\ Len(results) <= NUM

\* ---- helpers of the properties -------------------------------------------
IsFail(r, step) == r.status = "fail" /\ "step" \in DOMAIN r /\ r.step = step
Last(seq) == seq[Len(seq)]
IndexCount(index) == Cardinality({k \in 1 .. Len(results) : results[k].index = index})
InOrder(seq) == \A k \in 1 .. Len(seq) : seq[k].index = k - 1
RequiredConfigPresent == argv.rpc /\ argv.contract /\ env.FUNDER_PRIVATE_KEY
\* the loop is between two iterations, or over
BetweenIterations == pc \in {"loop", "summary", "done"}

\* C1: results holds one entry per finished iteration, with index 0,1,2,.. in
\* order: i entries between two iterations, i + 1 once the store step of
\* iteration i has been recorded, and exactly NUM entries with indices
\* 0..NUM-1 in the written farm-results.json.
ResultsOnePerIteration ==
  /\ InOrder(results)
  /\ pc \in {"loop", "create", "fund", "settle", "balance", "estimate",
             "send", "summary", "done"} => Len(results) = i
  /\ pc = "rate" => Len(results) = i + 1
  /\ summaryWrites > 0 => /\ Len(summary.results) = NUM
                          /\ InOrder(summary.results)

ResultsOnePerIterationWitness ==
  /\ pc = "done"
  /\ Len(summary.results) = 2
  /\ IsFail(summary.results[1], "create")
  /\ summary.results[2].status = "ok"

\* C2: with the required configuration present, whatever fails in the
\* iterations, the process never exits early and eventually ends with
\* farm-results.json written once and exit status 0.
RunCompletes ==
  /\ RequiredConfigPresent ~> (pc = "done" /\ exitCode = 0 /\ summaryWrites = 1)
  /\ [](RequiredConfigPresent => pc # "exited")

RunCompletesWitness ==
  /\ pc = "done"
  /\ exitCode = 0
  /\ Len(results) = 2
  /\ IsFail(results[1], "fund")
  /\ IsFail(results[2], "store")

\* C3: when the RPC URL, the contract address or the funder key is missing
\* the process does nothing but exit with status 1: no wallet, no transaction,
\* no wallets.json, no farm-results.json.
MissingConfigExits ==
  (~argv.rpc \/ ~argv.contract \/ ~env.FUNDER_PRIVATE_KEY) =>
    /\ pc \in {"config", "exited"}
    /\ pc = "exited" => exitCode = 1
    /\ i = 0 /\ wallet = 0 /\ results = <<>> /\ savedWallets = <<>>
    /\ fundSubmits = {} /\ storeSubmits = {}
    /\ walletsWrites = 0 /\ summaryWrites = 0

MissingConfigExitsWitness ==
  /\ argv.rpc /\ argv.contract /\ ~env.FUNDER_PRIVATE_KEY
  /\ pc = "exited"
  /\ exitCode = 1

\* C4 as stated: when --useHd is set and MNEMONIC is missing, the process
\* exits with a non-zero status before any iteration begins.
MissingMnemonicAborts ==
  (USE_HD /\ ~MNEMONIC) =>
    /\ pc \in {"config", "exited"}
    /\ pc = "exited" => exitCode = 1
    /\ results = <<>>

\* C4 as amended: when --useHd is set and MNEMONIC is missing (the required
\* configuration being present), the run is not aborted: createWallet throws
\* in every iteration, each is recorded as a "fail" at step "create", nothing
\* is funded, sent, saved or delayed, and the process ends with
\* farm-results.json holding NUM such results and exit status 0.
MissingMnemonicFailsEachCreate ==
  (USE_HD /\ ~MNEMONIC /\ RequiredConfigPresent) =>
    /\ pc \in {"config", "loop", "create", "summary", "done"}
    /\ \A k \in 1 .. Len(results) :
         results[k] = [index |-> k - 1, status |-> "fail", step |-> "create",
                       error |-> "MNEMONIC required"]
    /\ wallet = 0 /\ savedWallets = <<>> /\ walletsWrites = 0
    /\ fundSubmits = {} /\ storeSubmits = {} /\ delays = <<>>
    /\ pc = "done" => /\ exitCode = 0
                      /\ summaryWrites = 1
                      /\ summary.results = results
                      /\ Len(results) = NUM

MissingMnemonicFailsEachCreateWitness ==
  /\ USE_HD /\ ~MNEMONIC
  /\ pc = "done"
  /\ exitCode = 0
  /\ Len(summary.results) = 2
  /\ IsFail(summary.results[2], "create")

\* C5: a failed createWallet in iteration i leaves exactly one result of index
\* i, a "fail" at step "create", and index i never reaches fundWallet,
\* wallet.sendTransaction or wallets.json.
CreateFailureSkipsIteration ==
  /\ \A k \in 1 .. Len(results) : IsFail(results[k], "create") =>
       /\ IndexCount(results[k].index) = 1
       /\ results[k].index \notin fundSubmits \cup storeSubmits
       /\ \A j \in 1 .. Len(savedWallets) : savedWallets[j].index # results[k].index
       /\ \A j \in 1 .. Len(walletsFile) : walletsFile[j].index # results[k].index
  /\ (BetweenIterations /\ i > 0 /\ wallet = 0) =>
       /\ Len(results) = i
       /\ IsFail(Last(results), "create")
       /\ Last(results).index = i - 1
  /\ (pc \notin {"config", "exited", "create"} /\ ~BetweenIterations) => wallet # 0

CreateFailureSkipsIterationWitness ==
  /\ Len(results) = 2
  /\ IsFail(results[1], "create")
  /\ results[2].status = "ok"
  /\ fundSubmits = {1}
  /\ storeSubmits = {1}

\* C6: funding that fails on every attempt of iteration i leaves exactly one
\* result of index i, a "fail" at step "fund", and no payload transaction is
\* ever sent from the wallet of iteration i.
FundFailureSkipsPayload ==
  /\ \A k \in 1 .. Len(results) : IsFail(results[k], "fund") =>
       /\ IndexCount(results[k].index) = 1
       /\ results[k].index \notin storeSubmits
       /\ results[k].address = AddressOf(results[k].index)
  /\ (BetweenIterations /\ i > 0 /\ wallet # 0 /\ storeEnd = "none") =>
       /\ Len(results) = i
       /\ IsFail(Last(results), "fund")
       /\ Last(results).index = i - 1
       /\ fundAttempts = 3
  /\ pc \in {"settle", "balance", "estimate", "send", "rate"} =>
       (fundAttempts >= 1 /\ i \in fundSubmits)

FundFailureSkipsPayloadWitness ==
  /\ Len(results) = 2
  /\ IsFail(results[1], "fund")
  /\ 0 \in fundSubmits
  /\ storeSubmits = {1}

\* C7: a payload step that fails after the funding succeeded is recorded with
\* step "store" and without txHash, and the sleep of RATE_SECONDS is taken
\* for that iteration before the next one starts.
StoreFailureStillPaced ==
  /\ \A k \in 1 .. Len(results) : IsFail(results[k], "store") =>
       /\ "txHash" \notin DOMAIN results[k]
       /\ i = results[k].index => pc = "rate"
       /\ i # results[k].index =>
            \E d \in 1 .. Len(delays) :
               delays[d] = [kind |-> "rate", index |-> results[k].index,
                            ms |-> RATE_SECONDS * 1000]
  /\ storeEnd \in {"exhausted", "balance", "typeerror"} =>
       /\ Len(results) > 0
       /\ IsFail(Last(results), "store")
       /\ Last(results).index \in fundSubmits

StoreFailureStillPacedWitness ==
  /\ pc = "create"
  /\ i = 1
  /\ IsFail(results[1], "store")
  /\ delays = <<[kind |-> "settle", index |-> 0, ms |-> 1000],
                [kind |-> "rate", index |-> 0, ms |-> 2000]>>

\* C8: a failed gas estimate never ends the attempt: the attempt goes on to
\* wallet.sendTransaction with gasLimit 300000; a successful estimate is the
\* gasLimit of the attempt.
GasFallbackAbsorbed ==
  /\ estimate = "fail" => (pc = "send" /\ gasLimit = 300000)
  /\ estimate = "ok" => (pc = "send" /\ gasLimit \in GasEstimates)

\* C9: fundWallet and the store callback each run at most 3 times in an
\* iteration, no attempt follows a successful one, and the store step gives
\* up only after 3 attempts of its own, however many funding attempts failed.
FundSucceeded ==
  \/ pc \in {"settle", "balance", "estimate", "send", "rate"}
  \/ BetweenIterations /\ storeEnd # "none"
RetryBudgets ==
  /\ fundAttempts <= 3
  /\ storeAttempts <= 3
  /\ FundSucceeded => fundAttempts = fundHook + 1
  /\ storeEnd = "ok" => storeAttempts = storeHook + 1
  /\ pc = "fund" => (fundAttempts < 3 /\ fundHook = fundAttempts)
  /\ pc = "estimate" => (storeAttempts < 3 /\ storeHook = storeAttempts)
  /\ storeEnd = "exhausted" => (storeAttempts = 3 /\ storeHook = 3)

RetryBudgetsWitness ==
  /\ fundAttempts = 3
  /\ fundHook = 2
  /\ storeEnd = "exhausted"
  /\ storeAttempts = 3

\* C10 as stated: when all 3 funding attempts of an iteration fail, the
\* funding onFailedAttempt has run exactly twice.
FundExhausted ==
  /\ BetweenIterations
  /\ i > 0
  /\ Len(results) = i
  /\ IsFail(Last(results), "fund")
FundHookTwice == FundExhausted => fundHook = 2

\* C10 as amended: when all 3 funding attempts of an iteration fail, the
\* funding onFailedAttempt has run exactly three times, once per failed
\* attempt, the last one included.
FundHookThrice == FundExhausted => (fundAttempts = 3 /\ fundHook = 3)

FundHookThriceWitness == FundExhausted /\ pc = "loop" /\ fundAttempts = 3

\* ---- helpers of the later properties --------------------------------------
RateDelaysOf(index) ==
  {d \in 1 .. Len(delays) : delays[d].kind = "rate" /\ delays[d].index = index}
SettleDelaysOf(index) ==
  {d \in 1 .. Len(delays) : delays[d].kind = "settle" /\ delays[d].index = index}
InStoreStep == pc \in {"balance", "estimate", "send"}

\* C11: the sleep between iterations is max(1, --rate) seconds: never below
\* 1 second, the configured value when that is at least 1, and the same value
\* is the rateSeconds of farm-results.json.
RateFloor ==
  LET effective == IF argv.rate >= 1 THEN argv.rate ELSE 1 IN
  /\ \A d \in 1 .. Len(delays) : delays[d].kind = "rate" =>
       /\ delays[d].ms >= 1000
       /\ delays[d].ms = 1000 * effective
  /\ summaryWrites > 0 => summary.rateSeconds = effective

RateFloorWitness ==
  /\ argv.rate = -1
  /\ pc = "done"
  /\ summary.rateSeconds = 1
  /\ RateDelaysOf(0) # {}
  /\ RateDelaysOf(1) # {}

\* C12: with --num 0 no wallet is created, wallets.json is not written,
\* nothing is funded or sent, no sleep is taken, and the process ends with
\* farm-results.json written with an empty results array.
ZeroIterations ==
  (argv.num = 0) =>
    /\ pc \in {"config", "exited", "loop", "summary", "done"}
    /\ i = 0 /\ wallet = 0 /\ results = <<>>
    /\ savedWallets = <<>> /\ walletsFile = <<>> /\ walletsWrites = 0
    /\ fundSubmits = {} /\ storeSubmits = {} /\ fundAttempts = 0
    /\ storeAttempts = 0 /\ delays = <<>>
    /\ pc = "done" => (summaryWrites = 1 /\ summary.results = <<>> /\ exitCode = 0)

ZeroIterationsWitness ==
  /\ argv.num = 0
  /\ pc = "done"
  /\ summaryWrites = 1
  /\ summary.results = <<>>

\* C13: farm-results.json is written once, after the loop has recorded all NUM
\* results and never during an iteration, and results does not change after
\* the write.
SummaryWrittenOnceAtEnd ==
  /\ [](/\ summaryWrites <= 1
        /\ summaryWrites = 1 => /\ pc = "done"
                                /\ Len(results) = argv.num
                                /\ summary.results = results
        /\ pc = "done" => summaryWrites = 1)
  /\ [][summaryWrites = 1 => (results' = results /\ summaryWrites' = 1)]_vars

SummaryWrittenOnceAtEndWitness ==
  /\ pc = "done"
  /\ summaryWrites = 1
  /\ Len(summary.results) = 2
  /\ IsFail(summary.results[1], "store")

\* C14: in the funding step and in the store step the onFailedAttempt hook has
\* run once for every failed attempt, the last one included.
HookPerFailedAttempt ==
  /\ pc = "fund" => fundHook = fundAttempts
  /\ (pc = "settle" \/ InStoreStep \/ pc = "rate") => fundHook = fundAttempts - 1
  /\ (BetweenIterations /\ i > 0 /\ Len(results) = i /\ IsFail(Last(results), "fund"))
       => fundHook = fundAttempts
  /\ pc = "estimate" => storeHook = storeAttempts
  /\ pc = "send" => storeHook = storeAttempts - 1
  /\ storeEnd = "ok" => storeHook = storeAttempts - 1
  /\ storeEnd \in {"exhausted", "balance", "typeerror"} => storeHook = storeAttempts

\* C15: a result with step "store" is recorded only after 3 failed attempts
\* of the payload transaction.
StoreFailureAfterThreeAttempts ==
  (pc = "rate" /\ IsFail(Last(results), "store")) => storeAttempts = 3

\* C16: the steps of an iteration run in the order create, fund, settle sleep,
\* store, record, never back to an earlier one, and no payload transaction is
\* sent from a wallet before its funding was confirmed and the 1 second sleep
\* was taken.
StepRank(p) ==
  CASE p = "create" -> 1
    [] p = "fund" -> 2
    [] p = "settle" -> 3
    [] p \in {"balance", "estimate", "send"} -> 4
    [] p = "rate" -> 5
    [] OTHER -> 0
StepOrder ==
  /\ [](/\ \A index \in storeSubmits :
             /\ index \in fundSubmits
             /\ Cardinality(SettleDelaysOf(index)) = 1
        /\ \A k \in 1 .. Len(results) :
             results[k].status = "ok" => results[k].index \in storeSubmits
        /\ pc = "settle" => (wallet # 0 /\ fundAccepted >= 1
                             /\ SettleDelaysOf(i) = {})
        /\ InStoreStep => /\ wallet # 0
                          /\ fundAccepted >= 1
                          /\ Len(delays) > 0
                          /\ Last(delays) = [kind |-> "settle", index |-> i,
                                             ms |-> 1000]
        /\ pc \in {"create", "fund"} => (i \notin storeSubmits /\ Len(results) = i))
  /\ [][(i' = i /\ StepRank(pc) > 0 /\ StepRank(pc') > 0)
          => StepRank(pc') >= StepRank(pc)]_vars

StepOrderWitness ==
  /\ pc = "rate"
  /\ i = 1
  /\ storeSubmits = {0, 1}
  /\ results[2].status = "ok"
  /\ Len(delays) = 3

\* C17: an iteration that failed at create or at fund took no sleep at all,
\* the next iteration follows at once; the sleep of RATE_SECONDS is taken once
\* after exactly the iterations that reached the store step.
EarlyFailureNotPaced ==
  /\ \A k \in 1 .. Len(results) :
       /\ (IsFail(results[k], "create") \/ IsFail(results[k], "fund")) =>
            \A d \in 1 .. Len(delays) : delays[d].index # results[k].index
       /\ (results[k].status = "ok" \/ IsFail(results[k], "store")) =>
            /\ Cardinality(SettleDelaysOf(results[k].index)) = 1
            /\ results[k].index < i =>
                 Cardinality(RateDelaysOf(results[k].index)) = 1
  /\ \A d \in 1 .. Len(delays) : delays[d].kind = "rate" =>
       /\ d > 1
       /\ delays[d - 1] = [kind |-> "settle", index |-> delays[d].index,
                           ms |-> 1000]
  /\ (pc = "loop" /\ i > 0 /\ storeEnd = "none") =>
       (delays = <<>> \/ Last(delays).index < i - 1)

EarlyFailureNotPacedWitness ==
  /\ pc = "done"
  /\ Len(results) = 2
  /\ IsFail(results[1], "fund")
  /\ IsFail(results[2], "store")
  /\ Len(delays) = 2
  /\ delays[2].kind = "rate"
  /\ delays[2].index = 1

\* C18: with --saveWallets, wallets.json holds exactly one record for every
\* iteration whose createWallet succeeded so far, in increasing index order,
\* whatever happened to it afterwards, and none for a failed create; without
\* --saveWallets wallets.json is never written.
ProvisionedSoFar ==
  {results[k].index : k \in {j \in 1 .. Len(results) : ~IsFail(results[j], "create")}}
    \cup (IF pc \in {"fund", "settle", "balance", "estimate", "send"}
            THEN {i} ELSE {})
LedgerMatchesProvisioned ==
  /\ argv.saveWallets =>
       /\ {walletsFile[k].index : k \in 1 .. Len(walletsFile)} = ProvisionedSoFar
       /\ Len(walletsFile) = Cardinality(ProvisionedSoFar)
       /\ \A k \in 1 .. Len(walletsFile) - 1 :
            walletsFile[k].index < walletsFile[k + 1].index
       /\ \A k \in 1 .. Len(walletsFile) :
            /\ walletsFile[k].address = walletsFile[k].index + 1
            /\ DOMAIN walletsFile[k] = {"index", "address", "privateKey"}
       /\ walletsWrites = Len(walletsFile)
  /\ ~argv.saveWallets => (walletsWrites = 0 /\ walletsFile = <<>>)

LedgerMatchesProvisionedWitness ==
  /\ argv.saveWallets
  /\ Len(results) = 2
  /\ IsFail(results[1], "fund")
  /\ IsFail(results[2], "store")
  /\ Len(walletsFile) = 2
  /\ walletsWrites = 2

\* C19: every result has one of four shapes: ok with address and txHash;
\* fail at create with error only; fail at fund or at store with address and
\* error and no txHash.  A pushed result is never changed or removed.
ResultShape(r) ==
  \/ DOMAIN r = {"index", "address", "txHash", "status"} /\ r.status = "ok"
  \/ /\ DOMAIN r = {"index", "status", "step", "error"}
     /\ r.status = "fail" /\ r.step = "create"
  \/ /\ DOMAIN r = {"index", "address", "status", "step", "error"}
     /\ r.status = "fail" /\ r.step \in {"fund", "store"}
ResultShapes ==
  /\ [](\A k \in 1 .. Len(results) : ResultShape(results[k]))
  /\ [][/\ Len(results') >= Len(results)
        /\ \A k \in 1 .. Len(results) : results'[k] = results[k]]_vars

ResultShapesWitness ==
  /\ Len(results) = 2
  /\ results[1].status = "ok"
  /\ IsFail(results[2], "store")
  /\ pc = "done"

\* C20: at most one funding transfer of an iteration is accepted by the
\* network, and an iteration recorded as failed at step "fund" has had none
\* accepted.
SingleFundingTransfer ==
  /\ fundAccepted <= 1
  /\ FundExhausted => fundAccepted = 0

=============================================================================
